---------------------------- MODULE Spec2Model ----------------------------
(***************************************************************************)
(* The in-memory todo application of src/todo_app.py: the TaskList store   *)
(* (a dict of Task objects keyed by id, and the next_id counter) and the   *)
(* interactive shell (main and its five menu handlers).                    *)
(*                                                                         *)
(* A Python str is a sequence of one-character strings, so that strip(),   *)
(* lower() and int() are computed character by character.  A dict is the   *)
(* sequence of its entries in insertion order, which is the order          *)
(* dict.values() iterates in.                                              *)
(***************************************************************************)
EXTENDS Integers, Sequences, FiniteSets, TLC

VARIABLES
    tasks,      \* TaskList.tasks: the dict, as its entries in insertion order
    next_id,    \* TaskList.next_id
    created,    \* history: how many add_task calls have returned so far
    call,       \* the last TaskList method called by a client, and its result
    running,    \* main's "while True" loop has not been left
    pc,         \* the input() prompt the shell is blocked on
    line,       \* the outcome of the last input() call
    out,        \* the last message printed
    task_id,    \* the handler's local task_id (0 while no handler holds one)
    new_title   \* the handler's local title / new_title, already stripped

store == <<tasks, next_id, created>>
shell == <<running, pc, line, out, task_id, new_title>>
vars  == <<tasks, next_id, created, call, running, pc, line, out, task_id, new_title>>

\* The caps on next_id: a client of TaskList stops calling add_task once
\* MaxId tasks were created, and the user of the shell stops choosing
\* "1. Add Task" once ShellMaxId tasks were created.
MaxId == 3
ShellMaxId == 2

-----------------------------------------------------------------------------
(* Python values *)

\* None, a value different from every str
None == <<"None">>

\* An Optional[Task]: the absent result and a present task
NoTask == <<>>
Some(t) == <<t>>

-----------------------------------------------------------------------------
(* str.strip, str.lower, int *)

IsSpace(c) == c \in {" ", "\t"}

RECURSIVE lstrip(_)
lstrip(s) ==
    IF s # <<>> /\ IsSpace(Head(s)) THEN lstrip(Tail(s)) ELSE s

RECURSIVE rstrip(_)
rstrip(s) ==
    IF s # <<>> /\ IsSpace(s[Len(s)]) THEN rstrip(SubSeq(s, 1, Len(s) - 1)) ELSE s

strip(s) == rstrip(lstrip(s))

UpperCase == <<"A","B","C","D","E","F","G","H","I","J","K","L","M",
               "N","O","P","Q","R","S","T","U","V","W","X","Y","Z">>
LowerCase == <<"a","b","c","d","e","f","g","h","i","j","k","l","m",
               "n","o","p","q","r","s","t","u","v","w","x","y","z">>

lower_char(c) ==
    IF \E i \in 1..Len(UpperCase) : UpperCase[i] = c
    THEN LowerCase[CHOOSE i \in 1..Len(UpperCase) : UpperCase[i] = c]
    ELSE c

lower(s) == [i \in 1..Len(s) |-> lower_char(s[i])]

Digits == <<"0","1","2","3","4","5","6","7","8","9">>

IsDigit(c) == \E i \in 1..Len(Digits) : Digits[i] = c

DigitVal(c) == (CHOOSE i \in 1..Len(Digits) : Digits[i] = c) - 1

\* The value of a digit string in which single underscores may separate digits
RECURSIVE DigitsVal(_, _)
DigitsVal(s, acc) ==
    IF s = <<>> THEN acc
    ELSE IF Head(s) = "_" THEN DigitsVal(Tail(s), acc)
    ELSE DigitsVal(Tail(s), 10 * acc + DigitVal(Head(s)))

\* Whether int() accepts the unsigned part: digits, with single underscores
\* only between two digits
ValidDigits(s) ==
    /\ s # <<>>
    /\ \A i \in 1..Len(s) : IsDigit(s[i]) \/ s[i] = "_"
    /\ IsDigit(s[1]) /\ IsDigit(s[Len(s)])
    /\ \A i \in 1..(Len(s) - 1) : ~(s[i] = "_" /\ s[i + 1] = "_")

\* int(s): [ok |-> TRUE, val |-> n], or [ok |-> FALSE, ...] for ValueError
int(s) ==
    LET t == strip(s)
        signed == t # <<>> /\ Head(t) \in {"+", "-"}
        body == IF signed THEN Tail(t) ELSE t
    IN  IF ValidDigits(body)
        THEN [ok |-> TRUE,
              val |-> IF signed /\ Head(t) = "-" THEN 0 - DigitsVal(body, 0)
                      ELSE DigitsVal(body, 0)]
        ELSE [ok |-> FALSE, val |-> 0]

-----------------------------------------------------------------------------
(* dict: the entries [key, value] in insertion order *)

Keys(d) == {d[i].key : i \in 1..Len(d)}

Contains(d, k) == \E i \in 1..Len(d) : d[i].key = k

IndexOf(d, k) == CHOOSE i \in 1..Len(d) : d[i].key = k

\* d[k]
GetItem(d, k) == d[IndexOf(d, k)].value

\* d[k] = v: a new key is appended, an old key keeps its place
SetItem(d, k, v) ==
    IF Contains(d, k)
    THEN [d EXCEPT ![IndexOf(d, k)] = [key |-> k, value |-> v]]
    ELSE Append(d, [key |-> k, value |-> v])

\* del d[k]
DelItem(d, k) ==
    LET i == IndexOf(d, k)
    IN  SubSeq(d, 1, i - 1) \o SubSeq(d, i + 1, Len(d))

\* list(d.values())
Values(d) == [i \in 1..Len(d) |-> d[i].value]

-----------------------------------------------------------------------------
(* class Task, class TaskList: each method maps the object tl =            *)
(* [tasks, next_id] to the object after the call and the value returned    *)

Task(id, title, description, completed) ==
    [id |-> id, title |-> title, description |-> description,
     completed |-> completed]

TaskList_init == [tasks |-> <<>>, next_id |-> 1]

\* add_task numbering the task len(self.tasks) + 1
TaskList_add_task_reuse(tl, title, description) ==
    LET id == Len(tl.tasks) + 1
        task == Task(id, title, description, FALSE)
    IN  [tl  |-> [tasks   |-> SetItem(tl.tasks, id, task),
                  next_id |-> tl.next_id + 1],
         ret |-> task]

TaskList_add_task(tl, title, description) ==
    LET task == Task(tl.next_id, title, description, FALSE)
    IN  [tl  |-> [tasks   |-> SetItem(tl.tasks, tl.next_id, task),
                  next_id |-> tl.next_id + 1],
         ret |-> task]

TaskList_get_all_tasks(tl) ==
    [tl |-> tl, ret |-> Values(tl.tasks)]

TaskList_get_task_by_id(tl, id) ==
    [tl  |-> tl,
     ret |-> IF Contains(tl.tasks, id) THEN Some(GetItem(tl.tasks, id))
             ELSE NoTask]

\* update_task assigning the description without the "is not None" test
TaskList_update_task_overwrite(tl, id, title, description) ==
    IF ~Contains(tl.tasks, id) THEN [tl |-> tl, ret |-> FALSE]
    ELSE LET task == GetItem(tl.tasks, id)
             t1 == IF title # None THEN [task EXCEPT !.title = title] ELSE task
             t2 == [t1 EXCEPT !.description = description]
         IN  [tl  |-> [tl EXCEPT !.tasks = SetItem(tl.tasks, id, t2)],
              ret |-> TRUE]

\* update_task storing a rebuilt task under a deleted and re-inserted key
TaskList_update_task_reinsert(tl, id, title, description) ==
    IF ~Contains(tl.tasks, id) THEN [tl |-> tl, ret |-> FALSE]
    ELSE LET task == GetItem(tl.tasks, id)
             t1 == IF title # None THEN [task EXCEPT !.title = title] ELSE task
             t2 == IF description # None
                   THEN [t1 EXCEPT !.description = description] ELSE t1
         IN  [tl  |-> [tl EXCEPT !.tasks = SetItem(DelItem(tl.tasks, id), id, t2)],
              ret |-> TRUE]

TaskList_update_task(tl, id, title, description) ==
    IF ~Contains(tl.tasks, id) THEN [tl |-> tl, ret |-> FALSE]
    ELSE LET task == GetItem(tl.tasks, id)
             t1 == IF title # None THEN [task EXCEPT !.title = title] ELSE task
             t2 == IF description # None
                   THEN [t1 EXCEPT !.description = description] ELSE t1
         IN  [tl  |-> [tl EXCEPT !.tasks = SetItem(tl.tasks, id, t2)],
              ret |-> TRUE]

\* delete_task taking the id for a position in the listing
TaskList_delete_task_by_position(tl, id) ==
    IF ~Contains(tl.tasks, id) THEN [tl |-> tl, ret |-> FALSE]
    ELSE LET i == IF id <= Len(tl.tasks) THEN id ELSE Len(tl.tasks)
         IN  [tl  |-> [tl EXCEPT !.tasks = SubSeq(tl.tasks, 1, i - 1)
                                           \o SubSeq(tl.tasks, i + 1, Len(tl.tasks))],
              ret |-> TRUE]

TaskList_delete_task(tl, id) ==
    IF ~Contains(tl.tasks, id) THEN [tl |-> tl, ret |-> FALSE]
    ELSE [tl |-> [tl EXCEPT !.tasks = DelItem(tl.tasks, id)], ret |-> TRUE]

\* toggle_task_completion marking the task complete instead of flipping
TaskList_toggle_task_completion_set(tl, id) ==
    IF ~Contains(tl.tasks, id) THEN [tl |-> tl, ret |-> FALSE]
    ELSE LET task == GetItem(tl.tasks, id)
         IN  [tl  |-> [tl EXCEPT !.tasks =
                          SetItem(tl.tasks, id, [task EXCEPT !.completed = TRUE])],
              ret |-> TRUE]

TaskList_toggle_task_completion(tl, id) ==
    IF ~Contains(tl.tasks, id) THEN [tl |-> tl, ret |-> FALSE]
    ELSE LET task == GetItem(tl.tasks, id)
         IN  [tl  |-> [tl EXCEPT !.tasks =
                          SetItem(tl.tasks, id,
                                  [task EXCEPT !.completed = ~task.completed])],
              ret |-> TRUE]

\* The TaskList object held in the variables
task_list == [tasks |-> tasks, next_id |-> next_id]

-----------------------------------------------------------------------------
(* The state after construction *)

NoCall == [op |-> "none", task_id |-> 0, title |-> None, description |-> None,
           ret |-> None]

NoInput == [kind |-> "none", text |-> <<>>]

Init ==
    /\ tasks = TaskList_init.tasks
    /\ next_id = TaskList_init.next_id
    /\ created = 0
    /\ call = NoCall
    /\ running = TRUE
    /\ pc = "menu"
    /\ line = NoInput
    /\ out = "Welcome to the Todo App!"
    /\ task_id = 0
    /\ new_title = <<>>

-----------------------------------------------------------------------------
(* A client calling the methods of TaskList directly *)

Titles == {<<"a">>, <<"b">>}
NewTitles == {None, <<"b">>}
Descriptions == {None, <<"x">>}
Ids == 1..(MaxId + 1)

\* The call op(id, title, description) returned r
Called(op, id, title, description, r) ==
    /\ tasks' = r.tl.tasks
    /\ next_id' = r.tl.next_id
    /\ call' = [op |-> op, task_id |-> id, title |-> title,
                description |-> description, ret |-> r.ret]
    /\ UNCHANGED shell

CallAddTask ==
    /\ next_id <= MaxId
    /\ \E t \in Titles, d \in Descriptions :
          Called("add_task", 0, t, d, TaskList_add_task(task_list, t, d))
    /\ created' = created + 1

CallGetAllTasks ==
    /\ Called("get_all_tasks", 0, None, None, TaskList_get_all_tasks(task_list))
    /\ UNCHANGED created

CallGetTaskById ==
    /\ \E id \in Ids :
          Called("get_task_by_id", id, None, None,
                 TaskList_get_task_by_id(task_list, id))
    /\ UNCHANGED created

CallUpdateTask ==
    /\ \E id \in Ids, t \in NewTitles, d \in Descriptions :
          Called("update_task", id, t, d,
                 TaskList_update_task(task_list, id, t, d))
    /\ UNCHANGED created

CallDeleteTask ==
    /\ \E id \in Ids :
          Called("delete_task", id, None, None,
                 TaskList_delete_task(task_list, id))
    /\ UNCHANGED created

CallToggleTaskCompletion ==
    /\ \E id \in Ids :
          Called("toggle_task_completion", id, None, None,
                 TaskList_toggle_task_completion(task_list, id))
    /\ UNCHANGED created

Next ==
    \/ CallAddTask
    \/ CallGetAllTasks
    \/ CallGetTaskById
    \/ CallUpdateTask
    \/ CallDeleteTask
    \/ CallToggleTaskCompletion

Spec == Init /\ [][Next]_vars

-----------------------------------------------------------------------------
(* The interactive shell.  Each input() call is one step: it returns a     *)
(* line, or raises KeyboardInterrupt, EOFError or UnicodeDecodeError (a    *)
(* ValueError).  Between two input() calls the shell runs without          *)
(* interruption.                                                           *)

Line(text) == [kind |-> "line", text |-> text]
Raised(exc) == [kind |-> exc, text |-> <<>>]

MenuLines == {<<"1">>, <<" ", "2">>, <<"3">>, <<"4">>, <<"5">>, <<"6", " ">>,
              <<"7">>, <<"1", "2">>, <<>>}
TextLines == {<<>>, <<" ">>, <<"a">>, <<" ", "b", " ">>}
IdLines == {<<"1">>, <<" ", "2">>, <<"+", "3">>, <<"0", "_", "2">>, <<"0">>,
            <<"-", "1">>, <<"1", "_">>, <<"x">>, <<>>}
ConfirmLines == {<<"y">>, <<"Y">>, <<"y", "e", "s">>, <<" ", "Y", "e", "S", " ">>,
                 <<"y", "e">>, <<"n">>, <<>>}

\* What the shell does after a step: block on the next prompt, or return to
\* the menu with the handler's locals gone, or leave the loop
Goto(prompt, l, msg, id, title) ==
    /\ running' = TRUE
    /\ pc' = prompt
    /\ line' = l
    /\ out' = msg
    /\ task_id' = id
    /\ new_title' = title

ToMenu(l, msg) == Goto("menu", l, msg, 0, <<>>)

Break(l, msg) ==
    /\ running' = FALSE
    /\ pc' = "menu"
    /\ line' = l
    /\ out' = msg
    /\ task_id' = 0
    /\ new_title' = <<>>

\* The TaskList object becomes tl
Becomes(tl) ==
    /\ tasks' = tl.tasks
    /\ next_id' = tl.next_id

\* main's if/elif chain over the stripped choice
main_choice(choice) ==
    IF choice = <<"1">> THEN "add_task"
    ELSE IF choice = <<"2">> THEN "view_tasks"
    ELSE IF choice = <<"3">> THEN "mark_task_complete"
    ELSE IF choice = <<"4">> THEN "update_task"
    ELSE IF choice = <<"5">> THEN "delete_task"
    ELSE IF choice = <<"6">> THEN "break"
    ELSE "invalid"

\* The menu prompt returned a line that selects handler
AtMenu(l, handler) ==
    /\ running
    /\ pc = "menu"
    /\ l \in MenuLines
    /\ main_choice(strip(l)) = handler

\* "if not task_list.get_all_tasks()"
no_tasks(tl) == TaskList_get_all_tasks(tl).ret = <<>>

\* the confirmation accepting 'y' alone
confirmed_y_only(confirm) == confirm = <<"y">>

\* confirm in ['y', 'yes']
confirmed(confirm) == confirm \in {<<"y">>, <<"y", "e", "s">>}

\* the typed text passed on as it is, blank or not
value_or_None_unchecked(x) == x

\* "x if x else None"
value_or_None(x) == IF x # <<>> THEN x ELSE None

main_add_task ==
    \E l \in MenuLines :
        /\ AtMenu(l, "add_task")
        /\ next_id <= ShellMaxId
        /\ Goto("add_title", Line(l), "--- Add New Task ---", 0, <<>>)
        /\ UNCHANGED <<store, call>>

\* add_task testing the title as typed, without strip()
add_task_title_unstripped ==
    /\ running /\ pc = "add_title"
    /\ \E l \in TextLines :
          LET title == l
          IN  IF title = <<>>
              THEN ToMenu(Line(l), "Task title cannot be empty!")
              ELSE Goto("add_description", Line(l), "--- Add New Task ---", 0, title)
    /\ UNCHANGED <<store, call>>

add_task_title ==
    /\ running /\ pc = "add_title"
    /\ \E l \in TextLines :
          LET title == strip(l)
          IN  IF title = <<>>
              THEN ToMenu(Line(l), "Task title cannot be empty!")
              ELSE Goto("add_description", Line(l), "--- Add New Task ---", 0, title)
    /\ UNCHANGED <<store, call>>

add_task_description ==
    /\ running /\ pc = "add_description"
    /\ \E l \in TextLines :
          LET stripped == strip(l)
              description == IF stripped = <<>> THEN None ELSE stripped
              r == TaskList_add_task(task_list, new_title, description)
          IN  /\ Becomes(r.tl)
              /\ ToMenu(Line(l), "Task added successfully with ID")
    /\ created' = created + 1
    /\ UNCHANGED call

main_view_tasks ==
    \E l \in MenuLines :
        /\ AtMenu(l, "view_tasks")
        /\ LET r == TaskList_get_all_tasks(task_list)
           IN  /\ Becomes(r.tl)
               /\ IF r.ret = <<>>
                  THEN ToMenu(Line(l), "No tasks found.")
                  ELSE ToMenu(Line(l), "--- All Tasks ---")
        /\ UNCHANGED <<created, call>>

main_mark_task_complete ==
    \E l \in MenuLines :
        /\ AtMenu(l, "mark_task_complete")
        /\ IF no_tasks(task_list)
           THEN ToMenu(Line(l), "No tasks available.")
           ELSE Goto("toggle_id", Line(l), "--- Mark Task Complete/Incomplete ---",
                     0, <<>>)
        /\ UNCHANGED <<store, call>>

mark_task_complete_id ==
    /\ running /\ pc = "toggle_id"
    /\ \E l \in IdLines :
          LET n == int(strip(l))
              r == TaskList_toggle_task_completion(task_list, n.val)
          IN  IF ~n.ok
              THEN /\ ToMenu(Line(l), "Please enter a valid task ID (number).")
                   /\ UNCHANGED <<tasks, next_id>>
              ELSE /\ Becomes(r.tl)
                   /\ IF r.ret
                      THEN ToMenu(Line(l), "Task marked")
                      ELSE ToMenu(Line(l), "Task with ID not found.")
    /\ UNCHANGED <<created, call>>

main_update_task ==
    \E l \in MenuLines :
        /\ AtMenu(l, "update_task")
        /\ IF no_tasks(task_list)
           THEN ToMenu(Line(l), "No tasks available.")
           ELSE Goto("update_id", Line(l), "--- Update Task ---", 0, <<>>)
        /\ UNCHANGED <<store, call>>

update_task_id ==
    /\ running /\ pc = "update_id"
    /\ \E l \in IdLines :
          LET n == int(strip(l))
              task == TaskList_get_task_by_id(task_list, n.val).ret
          IN  IF ~n.ok
              THEN ToMenu(Line(l), "Please enter a valid task ID (number).")
              ELSE IF task = NoTask
              THEN ToMenu(Line(l), "Task with ID not found.")
              ELSE Goto("update_title", Line(l), "Current title", n.val, <<>>)
    /\ UNCHANGED <<store, call>>

update_task_title ==
    /\ running /\ pc = "update_title"
    /\ \E l \in TextLines :
          Goto("update_description", Line(l), "Current description", task_id,
               strip(l))
    /\ UNCHANGED <<store, call>>

update_task_description ==
    /\ running /\ pc = "update_description"
    /\ \E l \in TextLines :
          LET new_description == strip(l)
              title == value_or_None(new_title)
              d1 == value_or_None(new_description)
              description == IF new_description = <<>> THEN None ELSE d1
              r == TaskList_update_task(task_list, task_id, title, description)
          IN  /\ Becomes(r.tl)
              /\ IF r.ret
                 THEN ToMenu(Line(l), "Task updated successfully!")
                 ELSE ToMenu(Line(l), "Failed to update task.")
    /\ UNCHANGED <<created, call>>

main_delete_task ==
    \E l \in MenuLines :
        /\ AtMenu(l, "delete_task")
        /\ IF no_tasks(task_list)
           THEN ToMenu(Line(l), "No tasks available.")
           ELSE Goto("delete_id", Line(l), "--- Delete Task ---", 0, <<>>)
        /\ UNCHANGED <<store, call>>

delete_task_id ==
    /\ running /\ pc = "delete_id"
    /\ \E l \in IdLines :
          LET n == int(strip(l))
              task == TaskList_get_task_by_id(task_list, n.val).ret
          IN  IF ~n.ok
              THEN ToMenu(Line(l), "Please enter a valid task ID (number).")
              ELSE IF task = NoTask
              THEN ToMenu(Line(l), "Task with ID not found.")
              ELSE Goto("delete_confirm", Line(l), "--- Delete Task ---", n.val, <<>>)
    /\ UNCHANGED <<store, call>>

delete_task_confirm ==
    /\ running /\ pc = "delete_confirm"
    /\ \E l \in ConfirmLines :
          LET confirm == lower(strip(l))
              r == TaskList_delete_task(task_list, task_id)
          IN  IF confirmed(confirm)
              THEN /\ Becomes(r.tl)
                   /\ IF r.ret
                      THEN ToMenu(Line(l), "Task deleted successfully!")
                      ELSE ToMenu(Line(l), "Failed to delete task.")
              ELSE /\ ToMenu(Line(l), "Deletion cancelled.")
                   /\ UNCHANGED <<tasks, next_id>>
    /\ UNCHANGED <<created, call>>

main_break ==
    \E l \in MenuLines :
        /\ AtMenu(l, "break")
        /\ Break(Line(l), "Thank you for using the Todo App. Goodbye!")
        /\ UNCHANGED <<store, call>>

main_invalid_choice ==
    \E l \in MenuLines :
        /\ AtMenu(l, "invalid")
        /\ ToMenu(Line(l), "Invalid choice. Please enter a number between 1 and 6.")
        /\ UNCHANGED <<store, call>>

\* input() raises KeyboardInterrupt at any prompt: main's first except clause
main_KeyboardInterrupt ==
    /\ running
    /\ Break(Raised("KeyboardInterrupt"), "Thank you for using the Todo App. Goodbye!")
    /\ UNCHANGED <<store, call>>

\* The prompts whose input() call stands inside the handler's
\* "try: ... except ValueError"
InHandlerTry == {"update_title", "update_description", "delete_confirm"}

\* main without its "except Exception" clause: the exception ends the loop
main_Exception_uncaught ==
    /\ running
    /\ \E exc \in {"EOFError", "UnicodeDecodeError"} :
          IF exc = "UnicodeDecodeError" /\ pc \in {"update_title", "update_description", "delete_confirm"}
          THEN ToMenu(Raised(exc), "Please enter a valid task ID (number).")
          ELSE Break(Raised(exc), "Traceback (most recent call last)")
    /\ UNCHANGED <<store, call>>

\* input() raises another exception at any prompt: the handler's
\* "except ValueError" if it applies, else main's "except Exception"
main_Exception ==
    /\ running
    /\ \E exc \in {"EOFError", "UnicodeDecodeError"} :
          IF exc = "UnicodeDecodeError" /\ pc \in InHandlerTry
          THEN ToMenu(Raised(exc), "Please enter a valid task ID (number).")
          ELSE ToMenu(Raised(exc), "An error occurred")
    /\ UNCHANGED <<store, call>>

ShellNext ==
    \/ main_add_task
    \/ add_task_title
    \/ add_task_description
    \/ main_view_tasks
    \/ main_mark_task_complete
    \/ mark_task_complete_id
    \/ main_update_task
    \/ update_task_id
    \/ update_task_title
    \/ update_task_description
    \/ main_delete_task
    \/ delete_task_id
    \/ delete_task_confirm
    \/ main_break
    \/ main_invalid_choice
    \/ main_KeyboardInterrupt
    \/ main_Exception

ShellSpec == Init /\ [][ShellNext]_vars

-----------------------------------------------------------------------------
(* Vocabulary of the properties *)

\* The dict e holds the keys of d in the same order, and the same value
\* under every key but k
SameExcept(d, e, k) ==
    /\ Len(e) = Len(d)
    /\ \A i \in 1..Len(d) :
          /\ e[i].key = d[i].key
          /\ d[i].key # k => e[i] = d[i]

\* The dict d without the entry of key k
Without(d, k) == SelectSeq(d, LAMBDA e : e.key # k)

\* A line that is empty or holds white space only
Blank(text) == \A i \in 1..Len(text) : text[i] \in {" ", "\t"}

\* The identifier typed at an id prompt is not a number, or no task has it
RejectedId(text, d) ==
    \/ ~int(text).ok
    \/ ~Contains(d, int(text).val)

-----------------------------------------------------------------------------
(* Properties of TaskList, under Spec *)

\* C1: the k-th add_task call returns the task of identifier k, whatever
\* was deleted, toggled or updated in between: the identifier just handed
\* out is the number of add_task calls so far, it is the key the task is
\* stored under, and the counter is one ahead of it.
C1_IdentifiersInCreationOrder ==
    /\ next_id = created + 1
    /\ call.op = "add_task" =>
          /\ call.ret.id = created
          /\ Contains(tasks, created)
          /\ GetItem(tasks, created) = call.ret

\* C1 witness: the third add_task returned id 3 after task 1 was deleted.
C1_Witness ==
    /\ call.op = "add_task"
    /\ call.ret.id = 3
    /\ Keys(tasks) = {2, 3}

\* C3: update_task on an existing id returns True and replaces the fields
\* given (not None) and nothing else: the other field, the id, the
\* completed flag, every other task, the keys and their order, and next_id
\* stay as they were.
C3_UpdateReplacesGivenFieldsOnly ==
    [][(call'.op = "update_task" /\ Contains(tasks, call'.task_id)) =>
          LET id == call'.task_id
              old == GetItem(tasks, id)
              new == GetItem(tasks', id)
          IN  /\ call'.ret = TRUE
              /\ SameExcept(tasks, tasks', id)
              /\ next_id' = next_id
              /\ new.id = old.id
              /\ new.completed = old.completed
              /\ new.title = IF call'.title # None THEN call'.title ELSE old.title
              /\ new.description = IF call'.description # None
                                   THEN call'.description ELSE old.description
      ]_vars

\* C3 witness: a title-only update of a task that keeps its description "x".
C3_Witness ==
    /\ call.op = "update_task"
    /\ call.title = <<"b">>
    /\ call.description = None
    /\ Contains(tasks, call.task_id)
    /\ GetItem(tasks, call.task_id).title = <<"b">>
    /\ GetItem(tasks, call.task_id).description = <<"x">>
    /\ Len(tasks) >= 2

\* C5: delete_task of an id that is not stored returns False and changes
\* nothing; of a stored id it returns True and removes that entry and no
\* other, get_task_by_id of it is then absent; and an identifier that was
\* handed out and is no longer stored is never stored again.
C5_DeleteRemovesExactlyThatTask ==
    [][/\ call'.op = "delete_task" =>
             LET id == call'.task_id
             IN  IF Contains(tasks, id)
                 THEN /\ call'.ret = TRUE
                      /\ tasks' = Without(tasks, id)
                      /\ Len(tasks') = Len(tasks) - 1
                      /\ next_id' = next_id
                      /\ TaskList_get_task_by_id([tasks |-> tasks',
                                                  next_id |-> next_id'], id).ret
                           = NoTask
                 ELSE /\ call'.ret = FALSE
                      /\ tasks' = tasks
                      /\ next_id' = next_id
       /\ \A id \in 1..(next_id - 1) :
             ~Contains(tasks, id) => ~Contains(tasks', id)
      ]_vars

\* C5 witness: task 1 was deleted and the two other tasks remain.
C5_Witness ==
    /\ call.op = "delete_task"
    /\ call.task_id = 1
    /\ call.ret = TRUE
    /\ Keys(tasks) = {2, 3}

\* C6: toggle_task_completion of a stored id returns True and flips that
\* task's completed flag and nothing else, so that a second toggle gives
\* back the TaskList as it was; of an id not stored it returns False and
\* changes nothing; and add_task stores the new task with completed false.
C6_ToggleFlipsOnlyTheFlag ==
    [][/\ call'.op = "toggle_task_completion" =>
             LET id == call'.task_id
                 after == [tasks |-> tasks', next_id |-> next_id']
             IN  IF Contains(tasks, id)
                 THEN /\ call'.ret = TRUE
                      /\ SameExcept(tasks, tasks', id)
                      /\ next_id' = next_id
                      /\ GetItem(tasks', id) =
                            [GetItem(tasks, id) EXCEPT
                                !.completed = ~GetItem(tasks, id).completed]
                      /\ TaskList_toggle_task_completion(after, id).tl = task_list
                 ELSE /\ call'.ret = FALSE
                      /\ tasks' = tasks
                      /\ next_id' = next_id
       /\ call'.op = "add_task" =>
             /\ call'.ret.completed = FALSE
             /\ GetItem(tasks', call'.ret.id).completed = FALSE
      ]_vars

\* C6 witness: a toggle that brought a task back to completed = false (a
\* task starts with false, so it was toggled before), beside another task.
C6_Witness ==
    /\ call.op = "toggle_task_completion"
    /\ call.ret = TRUE
    /\ GetItem(tasks, call.task_id).completed = FALSE
    /\ Len(tasks) >= 2

\* What get_all_tasks returns in the current state
Listing == TaskList_get_all_tasks(task_list).ret

\* C8: in every state get_all_tasks returns the stored tasks, each stored
\* key once, in strictly increasing identifier order (so no two share an
\* identifier), and nothing when the store is empty; a get_all_tasks call
\* returns that listing and changes nothing.
C8_ListingInCreationOrder ==
    /\ [](/\ Len(Listing) = Cardinality(Keys(tasks))
          /\ \A k \in Keys(tasks) :
                Cardinality({i \in 1..Len(Listing) : Listing[i].id = k}) = 1
          /\ \A i \in 1..Len(Listing) :
                /\ Contains(tasks, Listing[i].id)
                /\ Listing[i] = GetItem(tasks, Listing[i].id)
          /\ \A i, j \in 1..Len(Listing) : i < j => Listing[i].id < Listing[j].id
          /\ tasks = <<>> => Listing = <<>>)
    /\ [][call'.op = "get_all_tasks" =>
             /\ call'.ret = Listing
             /\ tasks' = tasks
             /\ next_id' = next_id
         ]_vars

\* C8 witness: get_all_tasks returned tasks 2 and 3, in that order, after
\* task 2 was updated and task 1 deleted.
C8_Witness ==
    /\ call.op = "get_all_tasks"
    /\ Len(call.ret) = 2
    /\ call.ret[1].id = 2
    /\ call.ret[1].title = <<"b">>
    /\ call.ret[1].description = <<"x">>
    /\ call.ret[2].id = 3

-----------------------------------------------------------------------------
(* Properties of the shell, under ShellSpec *)

\* C2: at the description prompt of the Update handler, a blank title typed
\* before leaves the task's title as it was, and a blank description clears
\* the task's description to None.
C2_UpdateBlankInputs ==
    [][(pc = "update_description" /\ line'.kind = "line") =>
          LET old == GetItem(tasks, task_id)
              new == GetItem(tasks', task_id)
          IN  /\ new_title = <<>> => new.title = old.title
              /\ Blank(line'.text) => new.description = None
      ]_vars

\* C4: a handler whose input is rejected returns to the menu with the tasks
\* and next_id as they were: Add with a blank title; Toggle, Update and
\* Delete with an identifier that is not a number or that no task has.
C4_RejectedInputChangesNothing ==
    [][(/\ line'.kind = "line"
        /\ \/ pc = "add_title" /\ Blank(line'.text)
           \/ /\ pc \in {"toggle_id", "update_id", "delete_id"}
              /\ RejectedId(line'.text, tasks)) =>
          /\ pc' = "menu"
          /\ tasks' = tasks
          /\ next_id' = next_id
          /\ created' = created
      ]_vars

\* C4 witness: Add was given a white-space title while a task was stored.
C4_Witness ==
    /\ out = "Task title cannot be empty!"
    /\ line = Line(<<" ">>)
    /\ tasks # <<>>

\* C7: at the confirmation prompt of the Delete handler the task is removed
\* if the answer, trimmed and lower-cased, is "y" or "yes", and otherwise
\* nothing changes.
C7_DeleteOnlyWhenConfirmed ==
    [][(pc = "delete_confirm" /\ line'.kind = "line") =>
          /\ next_id' = next_id
          /\ IF lower(strip(line'.text)) \in {<<"y">>, <<"y", "e", "s">>}
             THEN /\ Contains(tasks, task_id)
                  /\ tasks' = Without(tasks, task_id)
             ELSE tasks' = tasks
      ]_vars

\* C7 witness: a task was deleted on the answer " YeS ".
C7_Witness ==
    /\ out = "Task deleted successfully!"
    /\ line = Line(<<" ", "Y", "e", "S", " ">>)

\* C9: the loop is left only on the choice "6" at the menu or on a
\* KeyboardInterrupt at any prompt; an invalid choice or another exception
\* prints a message and leads back to the menu with the tasks and next_id
\* as they were.
C9_LoopEndsOnlyOnExitOrInterrupt ==
    [][/\ (running /\ ~running') =>
             \/ line'.kind = "KeyboardInterrupt"
             \/ /\ pc = "menu"
                /\ line'.kind = "line"
                /\ strip(line'.text) = <<"6">>
       /\ (/\ running
           /\ \/ line'.kind \in {"EOFError", "UnicodeDecodeError"}
              \/ /\ pc = "menu"
                 /\ line'.kind = "line"
                 /\ strip(line'.text) \notin
                       {<<"1">>, <<"2">>, <<"3">>, <<"4">>, <<"5">>, <<"6">>}) =>
             /\ running'
             /\ pc' = "menu"
             /\ out' \in {"An error occurred",
                          "Please enter a valid task ID (number).",
                          "Invalid choice. Please enter a number between 1 and 6."}
             /\ tasks' = tasks
             /\ next_id' = next_id
      ]_vars

\* C9 witness: an EOFError inside a handler, with a task stored, led back to
\* the menu of the running loop.
C9_Witness ==
    /\ running
    /\ pc = "menu"
    /\ line = Raised("EOFError")
    /\ out = "An error occurred"
    /\ tasks # <<>>

\* C10: every stored task has a title that is not empty and not white space.
C10_TitlesNonEmpty ==
    \A i \in 1..Len(tasks) :
        /\ tasks[i].value.title # <<>>
        /\ ~Blank(tasks[i].value.title)

\* C10 witness: the Update handler has run on the first stored task, which
\* has the title "a" and the new description "b".
C10_Witness ==
    /\ out = "Task updated successfully!"
    /\ tasks # <<>>
    /\ tasks[1].value.title = <<"a">>
    /\ tasks[1].value.description = <<"b">>

=============================================================================
